---- MODULE Spec2Model ----
(***************************************************************************)
(* Promo-Scraper: the sync engine of website/bca/3.bca_scraper_senteces.py *)
(* (main: crawl, drop, snapshot, reconcile, per-promo delete + upsert) and *)
(* the query engines of 2.bca_query.py, 4.bca_scraper_query.py and         *)
(* 5.llm_model.py (nearest-neighbour candidates, month boost, parent       *)
(* collapse, sort, top K).                                                 *)
(*                                                                         *)
(* Texts that are sliced (descriptions) are sequences of one-character     *)
(* strings.  Texts that are only searched with \b word \b regular          *)
(* expressions (query, period, title, chunk text at query time) are sets   *)
(* of word tokens: a pattern \bs\b with s made of word characters matches  *)
(* a text exactly when s is one of its maximal runs of word characters.    *)
(* Scores are in hundredths (0.12 is 12, a distance of 0.30 is 30).        *)
(***************************************************************************)
EXTENDS Integers, Sequences, FiniteSets, TLC

VARIABLES
    store,          \* the Chroma collection: a set of chunk rows with distinct ids
    pc,             \* position of main() of the sync engine
    data,           \* crawl_category's result for the current run
    idx,            \* index of the next item of `for item in data`
    existing_docs,  \* the snapshot collection.get() returned (rows at that time)
    cause,          \* which call raised when the run stopped
    store0,         \* history: the store when the current run began
    sameInput,      \* history: the crawl returned the records of the previous run
    prevOk,         \* history: the previous run reached the end of main()
    qtokens,        \* query engine: word tokens of the query text
    top_k,          \* query engine: number of promos asked for
    ranking,        \* query engine: the store's nearest-neighbour order for the query
    n_results,      \* query engine: the n_results handed to collection.query
    raw,            \* query engine: what collection.query returned
    items,          \* query engine: scored candidates (4. lines 102-116, 5. lines 51-65)
    results,        \* query engine: the list handed back
    qpc,            \* query engine: which entry point produced `results`
    indexed_by,     \* the embedding model that made the vectors in the collection
    warned,         \* ask_llm: a warning was printed (5. line 161)
    retrieval,      \* ask_llm: how the call of search_promos ended
    fallback_file,  \* ask_llm: whether the fallback JSON file loads, and its records
    allow_fallback, \* ask_llm: its argument allow_fallback
    context,        \* ask_llm: the context handed to the summarizer (line 185)
    lpc,            \* ask_llm: how the call ended
    error,          \* query paths: the exception that left the call
    ctext,          \* chunkers: the text given
    cparams,        \* chunkers: max_chars, overlap, min_chars
    cchunks,        \* chunkers: the list returned, each chunk with its span
    cpc,            \* chunkers: which chunker ran, or in which loop it is
    cstart,         \* chunkers: `start` of the while loop
    runs,           \* two runs of main() at once: per run its pc, data, idx, snapshot, handle
    coll            \* two runs at once: the collection of the server (generation, exists)

syncVars == <<store, pc, data, idx, existing_docs, cause, store0, sameInput, prevOk>>
queryVars == <<qtokens, top_k, ranking, n_results, raw, items, results, qpc>>
llmVars == <<indexed_by, warned, retrieval, fallback_file, allow_fallback, context, lpc, error>>
chunkVars == <<ctext, cparams, cchunks, cpc, cstart>>
concVars == <<runs, coll>>
restVars == <<llmVars, chunkVars, concVars>>
vars == <<syncVars, queryVars, restVars>>

Min(a, b) == IF a < b THEN a ELSE b
Max(a, b) == IF a > b THEN a ELSE b

(***************************************************************************)
(* Bounds of the model and constants of the program.                       *)
(***************************************************************************)
ShortLen == 3          \* length of a short description (one chunk)
LongLen == 1300        \* length of a long description (two chunks)

CHUNK_MAX_CHARS == 1200
CHUNK_OVERLAP == 150

Stamps == {1, 2}       \* scrape_date values (datetime.now() of a crawl)
NoValue == "None"

(***************************************************************************)
(* Texts.                                                                  *)
(***************************************************************************)
IsSpace(c) == c \in {" ", "\n", "\t", "\r"}

RECURSIVE lstrip(_)
lstrip(s) ==
    IF s # <<>> /\ IsSpace(Head(s)) THEN lstrip(Tail(s)) ELSE s

RECURSIVE rstrip(_)
rstrip(s) ==
    IF s # <<>> /\ IsSpace(s[Len(s)]) THEN rstrip(SubSeq(s, 1, Len(s) - 1)) ELSE s

\* str.strip()
strip(s) == rstrip(lstrip(s))

\* text[a:b] of Python, 0-based and half open
Slice(s, a, b) == SubSeq(s, a + 1, b)

Fill(n, c) == [k \in 1..n |-> c]

\* what extract_description can return: "" or stripped paragraphs of more than 2 characters
Descriptions ==
    {<<>>, Fill(ShortLen, "a"), Fill(LongLen, "a"), Fill(LongLen, "b")}

(***************************************************************************)
(* chunk_text: the while loop of lines 118-126, one chunk per iteration.   *)
(***************************************************************************)
RECURSIVE chunk_loop(_, _, _, _)
chunk_loop(text, start, max_chars, overlap) ==
    IF start < Len(text)
    THEN LET end == Min(start + max_chars, Len(text))
             piece == Slice(text, start, end)
         IN  IF end = Len(text)
             THEN <<piece>>
             ELSE <<piece>> \o chunk_loop(text, Max(0, end - overlap), max_chars, overlap)
    ELSE <<>>

chunk_text(t, max_chars, overlap) ==
    LET text == strip(t)
    IN  IF text = <<>> THEN <<>> ELSE chunk_loop(text, 0, max_chars, overlap)

(***************************************************************************)
(* Scraped records (crawl_category, lines 270-282).                        *)
(***************************************************************************)
\* a digest that changes from run to run (a salted hash() or a uuid)
sha256_salted(url) ==
    <<IF \E r \in store : r.metadata.parent_id = <<"h0", url>> THEN "h1" ELSE "h0", url>>

\* hashlib.sha256(url).hexdigest(): a fixed injective function of the URL
sha256(url) == <<"h0", url>>

\* parse_detail succeeded: the dict of lines 242-253
DetailItem(url, desc, stamp) ==
    [id |-> sha256(url), url |-> url, detail |-> TRUE, title |-> <<"title", url>>,
     period |-> "", description |-> desc, scrape_date |-> stamp]

\* parse_detail failed: {"error", "url"}, no title, no description (line 240)
ErrorItem(url, stamp) ==
    [id |-> sha256(url), url |-> url, detail |-> FALSE, title |-> NoValue,
     period |-> "", description |-> NoValue, scrape_date |-> stamp]

\* what the first listing card can contribute to a crawl; <<>> when it is not listed
CardOptions(url, stamp) ==
    {<<>>} \cup {<<ErrorItem(url, stamp)>>}
           \cup {<<DetailItem(url, d, stamp)>> : d \in Descriptions}

\* the second card: listed with a short description, or not listed
OtherCardOptions(url, stamp) ==
    {<<>>, <<DetailItem(url, Fill(ShortLen, "c"), stamp)>>}

\* all_rows of a crawl: the listed cards in listing order, URLs distinct (parse_cards)
Scrapes ==
    UNION {{a \o b : a \in CardOptions("u1", st), b \in OtherCardOptions("u2", st)} :
           st \in Stamps}

\* what the crawl read from the site for one record (every field but the derived id)
Page(item) ==
    [url |-> item.url, detail |-> item.detail, title |-> item.title,
     period |-> item.period, description |-> item.description,
     scrape_date |-> item.scrape_date]

Pages(d) == [k \in 1..Len(d) |-> Page(d[k])]

\* item.get("description", "")
GetDescription(item) == IF item.detail THEN item.description ELSE <<>>

(***************************************************************************)
(* Chunk rows (main, lines 342-365) and the store operations.              *)
(***************************************************************************)
\* an id without its parent prefix: f"chunk-{j}"
ChunkId_NoParent(parent_id, j) == <<"", "#chunk-", j>>

\* f"{parent_id}#chunk-{j}"
ChunkId(parent_id, j) == <<parent_id, "#chunk-", j>>

ChunkRecord(item, j, ch) ==
    [id |-> ChunkId(item.id, j),
     document |-> ch,
     metadata |-> [parent_id |-> item.id, title |-> item.title, url |-> item.url,
                   period |-> item.period, scrape_date |-> item.scrape_date,
                   chunk_index |-> j]]

\* chunk_records of one item; enumerate() counts from 0
chunk_records(item) ==
    LET chunks == chunk_text(GetDescription(item), CHUNK_MAX_CHARS, CHUNK_OVERLAP)
    IN  {ChunkRecord(item, j - 1, chunks[j]) : j \in 1..Len(chunks)}

IdsOf(rows) == {r.id : r \in rows}

\* a write that leaves nothing but the rows written
Upsert_Only(s, rows) == rows

\* collection.upsert: rows with a known id are replaced, the others are added
Upsert(s, rows) == {r \in s : r.id \notin IdsOf(rows)} \cup rows

\* collection.delete(ids=...)
Delete(s, ids) == {r \in s : r.id \notin ids}

\* client.delete_collection
delete_collection(s) == {}

\* a loop that finds no parent and does not raise
existing_parent_ids_none(docs) == [raised |-> FALSE, value |-> {}]

\* a loop that reads the flat list row by row and finds every parent
existing_parent_ids_flat(docs) ==
    [raised |-> FALSE, value |-> {r.metadata.parent_id : r \in docs}]

\* lines 309-314: existing_docs["metadatas"] is a flat list of dicts, so the inner
\* loop walks the keys of a dict and calls .get on a str: AttributeError as soon
\* as the snapshot holds one row with metadata.
existing_parent_ids(docs) ==
    IF docs = {} THEN [raised |-> FALSE, value |-> {}]
                 ELSE [raised |-> TRUE, value |-> {}]

\* lines 320-324 and 333-337: ids of the snapshot rows of the given parents
ids_to_delete(docs, parents) ==
    {r.id : r \in {x \in docs : x.metadata.parent_id \in parents}}

ParentsIn(s) == {r.metadata.parent_id : r \in s}
ScrapedIds(d) == {d[k].id : k \in 1..Len(d)}
ChunksOf(s, pid) == {r \in s : r.metadata.parent_id = pid}

(***************************************************************************)
(* Embedding providers.  Every indexer and every query path names its own  *)
(* model and they all share the collection "promo_collection".  The store  *)
(* knows a vector by its length only: a query whose vector has another     *)
(* length than the stored ones raises, any other query is answered.        *)
(***************************************************************************)
COHERE_MODEL == "embed-multilingual-v3.0"
LOCAL_MODEL == "LazarusNLP/all-indo-e5-small-v4"
QWEN_MODEL == "Qwen/Qwen3-Embedding-8B"
SMALL_MODEL == "intfloat/multilingual-e5-small"

\* 6.new_rag_test.py line 19: os.getenv("EMBED_MODEL_NAME", "Qwen/Qwen3-Embedding-8B")
EMBED_MODEL_NAME == {QWEN_MODEL, SMALL_MODEL}

Providers == {COHERE_MODEL, LOCAL_MODEL} \cup EMBED_MODEL_NAME

\* the length of the vectors a model returns
VectorLength ==
    (COHERE_MODEL :> 1024) @@ (LOCAL_MODEL :> 384) @@ (QWEN_MODEL :> 4096)
        @@ (SMALL_MODEL :> 384)

\* the model a query path embeds the query with
QueryModel ==
    [search2 |-> COHERE_MODEL, search4 |-> LOCAL_MODEL, search5 |-> LOCAL_MODEL]

\* collection.query takes the query vector
Accepts(stored_by, query_by) == VectorLength[stored_by] = VectorLength[query_by]

LlmIdle ==
    /\ warned = FALSE /\ retrieval = NoValue /\ fallback_file = [loads |-> FALSE, records |-> <<>>]
    /\ allow_fallback = TRUE /\ context = <<>> /\ lpc = "idle" /\ error = NoValue

ConcIdle ==
    /\ runs = <<>> /\ coll = [gen |-> 0, exists |-> FALSE]

ChunkIdle ==
    /\ ctext = <<>> /\ cparams = NoValue /\ cchunks = <<>> /\ cpc = "idle" /\ cstart = 0

(***************************************************************************)
(* main() of the sync engine, one action per call that can raise.          *)
(***************************************************************************)
DROP_OLD_COLLECTION == TRUE

QueryIdle ==
    /\ qtokens = {} /\ top_k = 0 /\ ranking = <<>> /\ n_results = 0 /\ raw = <<>>
    /\ items = <<>> /\ results = <<>> /\ qpc = "idle"

Init ==
    /\ store = {}
    /\ ConcIdle
    /\ pc = "idle"
    /\ data = <<>>
    /\ idx = 0
    /\ existing_docs = {}
    /\ cause = NoValue
    /\ store0 = {}
    /\ sameInput = FALSE
    /\ prevOk = FALSE
    /\ QueryIdle
    /\ indexed_by = LOCAL_MODEL
    /\ LlmIdle
    /\ ChunkIdle

Abort(why) ==
    /\ pc' = "aborted"
    /\ cause' = why

\* lines 290-294: a run starts with a crawl
Crawl ==
    /\ pc \in {"idle", "done", "aborted"}
    /\ \E d \in Scrapes :
          /\ data' = d
          /\ sameInput' = (pc # "idle" /\ Pages(d) = Pages(data))
    /\ pc' = "crawled"
    /\ idx' = 0
    /\ existing_docs' = {}
    /\ cause' = NoValue
    /\ store0' = store
    /\ prevOk' = (pc = "done")
    /\ UNCHANGED <<store, queryVars, restVars>>

\* line 296: chromadb.HttpClient
Connect ==
    /\ pc = "crawled"
    /\ \E ok \in BOOLEAN :
          IF ok THEN pc' = "connected" /\ cause' = cause
                ELSE Abort("connect")
    /\ UNCHANGED <<store, data, idx, existing_docs, store0, sameInput, prevOk, queryVars, restVars>>

\* lines 297-301: the drop, whose failure is swallowed by the bare except
DropCollection ==
    /\ pc = "connected"
    /\ \E ok \in BOOLEAN :
          store' = IF DROP_OLD_COLLECTION /\ ok THEN delete_collection(store) ELSE store
    /\ pc' = "dropped"
    /\ UNCHANGED <<data, idx, existing_docs, cause, store0, sameInput, prevOk, queryVars, restVars>>

\* line 302: client.get_or_create_collection
GetOrCreateCollection ==
    /\ pc = "dropped"
    /\ \E ok \in BOOLEAN :
          IF ok THEN pc' = "collection" /\ cause' = cause
                ELSE Abort("get_or_create_collection")
    /\ UNCHANGED <<store, data, idx, existing_docs, store0, sameInput, prevOk, queryVars, restVars>>

\* line 304: SentenceTransformer(...)
LoadModel ==
    /\ pc = "collection"
    /\ \E ok \in BOOLEAN :
          IF ok THEN pc' = "model" /\ cause' = cause
                ELSE Abort("load_model")
    /\ UNCHANGED <<store, data, idx, existing_docs, store0, sameInput, prevOk, queryVars, restVars>>

\* lines 306-327: snapshot, parents of the snapshot, delete of the removed promos
Reconcile ==
    /\ pc = "model"
    /\ \E ok \in BOOLEAN :
          LET snapshot == store
              parents == existing_parent_ids(snapshot)
              parent_ids_to_delete == parents.value \ ScrapedIds(data)
              ids == ids_to_delete(snapshot, parent_ids_to_delete)
          IN  IF parents.raised
              THEN Abort("existing_parent_ids") /\ UNCHANGED <<store, existing_docs, idx>>
              ELSE IF ids # {} /\ ~ok
              THEN Abort("delete_removed") /\ UNCHANGED <<store, existing_docs, idx>>
              ELSE /\ store' = Delete(store, ids)
                   /\ existing_docs' = snapshot
                   /\ idx' = 1
                   /\ pc' = "loop"
                   /\ cause' = cause
    /\ UNCHANGED <<data, store0, sameInput, prevOk, queryVars, restVars>>

\* lines 330-340: delete of the promo's rows of the snapshot
PromoDelete ==
    /\ pc = "loop"
    /\ idx <= Len(data)
    /\ \E ok \in BOOLEAN :
          LET ids == ids_to_delete(existing_docs, {data[idx].id})
          IN  IF ids # {} /\ ~ok
              THEN Abort("delete_old") /\ store' = store
              ELSE /\ store' = Delete(store, ids)
                   /\ pc' = "upsert"
                   /\ cause' = cause
    /\ UNCHANGED <<data, idx, existing_docs, store0, sameInput, prevOk, queryVars, restVars>>

\* lines 342-375: chunk, embed (line 369), upsert (line 370).  An upsert of no
\* row at all is rejected by some Chroma versions (ValueError) and a no-op in
\* others: both outcomes are kept.
PromoUpsert ==
    /\ pc = "upsert"
    /\ \E outcome \in {"ok", "encode_raises", "upsert_raises"} :
          LET rows == chunk_records(data[idx])
          IN  IF outcome = "encode_raises"
              THEN Abort("encode") /\ UNCHANGED <<store, idx>>
              ELSE IF outcome = "upsert_raises"
              THEN Abort("upsert") /\ UNCHANGED <<store, idx>>
              ELSE /\ store' = Upsert(store, rows)
                   /\ idx' = idx + 1
                   /\ pc' = "loop"
                   /\ cause' = cause
    /\ UNCHANGED <<data, existing_docs, store0, sameInput, prevOk, queryVars, restVars>>

\* lines 377-378: the loop is over
Finish ==
    /\ pc = "loop"
    /\ idx > Len(data)
    /\ pc' = "done"
    /\ UNCHANGED <<store, data, idx, existing_docs, cause, store0, sameInput, prevOk, queryVars, restVars>>

Next ==
    \/ Crawl
    \/ Connect
    \/ DropCollection
    \/ GetOrCreateCollection
    \/ LoadModel
    \/ Reconcile
    \/ PromoDelete
    \/ PromoUpsert
    \/ Finish

Spec == Init /\ [][Next]_vars

(***************************************************************************)
(* Sync engine: properties.                                                *)
(***************************************************************************)
Fresh(k) == chunk_records(data[k])
Stopped == pc \in {"done", "aborted"}

\* C1: after a successful run the parents of the stored chunks are exactly the
\* scraped promo ids, every scraped promo has at least one chunk.
C1_SyncCompleteness ==
    pc = "done" => ParentsIn(store) = ScrapedIds(data)

\* C2: after a successful run every scraped promo has exactly the rows derived
\* from its current description, and no row or chunk id of its previous
\* version survives unless the current version derives it again.
C2_FreshChunksOnly ==
    pc = "done" =>
        \A k \in 1..Len(data) :
            /\ ChunksOf(store, data[k].id) = Fresh(k)
            /\ \A r \in ChunksOf(store0, data[k].id) :
                  /\ r \notin Fresh(k) => r \notin store
                  /\ r.id \notin IdsOf(Fresh(k)) => r.id \notin IdsOf(store)

\* a run ended whose promo had more chunks before than it has now
C2_Witness ==
    /\ pc = "done"
    /\ \E k \in 1..Len(data) :
          /\ Fresh(k) # {}
          /\ Cardinality(Fresh(k)) < Cardinality(ChunksOf(store0, data[k].id))

\* C3: a promo that had chunks when the run began and is absent from the scrape
\* has no chunk left when the run completes.
C3_RemovedPromoGone ==
    pc = "done" =>
        \A b \in ParentsIn(store0) \ ScrapedIds(data) : ChunksOf(store, b) = {}

C3_Witness ==
    /\ pc = "done"
    /\ prevOk
    /\ ParentsIn(store0) \ ScrapedIds(data) # {}
    /\ store # {}

\* C4: a successful run on the input of the successful run before it leaves
\* the store as that run left it (ids, texts, metadata).
C4_Idempotent ==
    (pc = "done" /\ prevOk /\ sameInput) => store = store0

C4_Witness ==
    /\ pc = "done" /\ prevOk /\ sameInput
    /\ Cardinality(store) >= 2

\* C5: when embedding or upserting fails for one promo, every other promo of
\* the scrape still ends with its freshly derived chunks.
C5_FailureIsolated ==
    (pc = "aborted" /\ cause \in {"encode", "upsert"}) =>
        \A k \in 1..Len(data) : k # idx => ChunksOf(store, data[k].id) = Fresh(k)

\* C6: wherever a run stops, each scraped promo has its complete previous chunk
\* set or its complete new one.
C6_PromoAtomicity ==
    Stopped =>
        \A k \in 1..Len(data) :
            \/ ChunksOf(store, data[k].id) = ChunksOf(store0, data[k].id)
            \/ ChunksOf(store, data[k].id) = Fresh(k)

\* C7: a run that aborts because the store cannot be reached or the embedding
\* model cannot be loaded has not changed the store.
C7_FatalBeforeMutation ==
    (pc = "aborted" /\ cause \in {"connect", "load_model"}) => store = store0

(***************************************************************************)
(* Query engines.  month_table, detect_months and month_boost are those of *)
(* 4.bca_scraper_query.py.  A synonym ending in "." never matches as a     *)
(* token by itself; wherever its pattern \bjan\.\b matches, the token jan  *)
(* of the same list matches too, and every use is an any() over the list.  *)
(***************************************************************************)
MonthCodes == <<"01", "02", "03", "04", "05", "06", "07", "08", "09", "10", "11", "12">>

month_table ==
    [mm \in {MonthCodes[n] : n \in 1..12} |->
        CASE mm = "01" -> {"januari", "jan", "jan.", "january", "janv", "01", "1"}
          [] mm = "02" -> {"februari", "feb", "feb.", "february", "02", "2"}
          [] mm = "03" -> {"maret", "mar", "mar.", "march", "03", "3"}
          [] mm = "04" -> {"april", "apr", "apr.", "april.", "04", "4"}
          [] mm = "05" -> {"mei", "may", "may.", "mei.", "05", "5"}
          [] mm = "06" -> {"juni", "jun", "jun.", "june", "06", "6"}
          [] mm = "07" -> {"juli", "jul", "jul.", "july", "07", "7"}
          [] mm = "08" -> {"agustus", "agus", "aug", "aug.", "august", "08", "8"}
          [] mm = "09" -> {"september", "sep", "sept", "sept.", "09", "9"}
          [] mm = "10" -> {"oktober", "okt", "okt.", "oct", "oct.", "october", "10"}
          [] mm = "11" -> {"november", "nov", "nov.", "11"}
          [] mm = "12" -> {"desember", "des", "des.", "dec", "dec.", "december", "12"}]

\* int(mm)
MonthInt(mm) == CHOOSE n \in 1..12 : MonthCodes[n] = mm

\* str(int(mm)) and "0" + str(int(mm)): what \b0?{int(mm)}\b can match
PlainNumber == <<"1", "2", "3", "4", "5", "6", "7", "8", "9", "10", "11", "12">>
ZeroNumber == <<"01", "02", "03", "04", "05", "06", "07", "08", "09", "010", "011", "012">>

\* str.lower() on the words that occur capitalised in the model's texts
Capitalised ==
    [Agustus |-> "agustus", Agu |-> "agu", Jan |-> "jan", Sep |-> "sep",
     Okt |-> "okt", Promo |-> "promo", Ada |-> "ada"]

Lower(t) == IF t \in DOMAIN Capitalised THEN Capitalised[t] ELSE t

LowerAll(tokens) == {Lower(t) : t \in tokens}

\* re.search(rf"\b{re.escape(s)}\b", text) for some s of the list
AnySynonym(syns, text) == \E sy \in syns : sy \in text

\* re.search(r"\b20\d{2}\b", text), on the year words of the model's texts
YearWords == {"2024", "2025", "2026"}
HasYear(text) == \E y \in YearWords : y \in text

\* detect_months: the codes whose list matches, sorted
detect_months(q) ==
    LET ql == LowerAll(q)
    IN  SelectSeq(MonthCodes, LAMBDA mm : AnySynonym(month_table[mm], ql))

base_score(distance) == 100 - distance

\* a boost whose direct match looks for the month code only
BoostOfMonth_CodeOnly(text, mm) ==
    LET syns == month_table[mm]
        prevm == MonthCodes[((MonthInt(mm) - 2) % 12) + 1]
        nextm == MonthCodes[(MonthInt(mm) % 12) + 1]
        direct == mm \in text
        numeric == \/ mm \in text
                   \/ PlainNumber[MonthInt(mm)] \in text
                   \/ ZeroNumber[MonthInt(mm)] \in text
        near == \/ direct /\ AnySynonym(month_table[nextm], text)
                \/ direct /\ AnySynonym(month_table[prevm], text)
    IN  (IF direct THEN 12 ELSE 0)
        + (IF HasYear(text) /\ numeric THEN 5 ELSE 0)
        + (IF near THEN 8 ELSE 0)

\* one turn of `for mm in months` of month_boost (lines 79-98)
BoostOfMonth(text, mm) ==
    LET syns == month_table[mm]
        prevm == MonthCodes[((MonthInt(mm) - 2) % 12) + 1]
        nextm == MonthCodes[(MonthInt(mm) % 12) + 1]
        direct == AnySynonym(syns, text)
        numeric == \/ mm \in text
                   \/ PlainNumber[MonthInt(mm)] \in text
                   \/ ZeroNumber[MonthInt(mm)] \in text
        near == \/ direct /\ AnySynonym(month_table[nextm], text)
                \/ direct /\ AnySynonym(month_table[prevm], text)
    IN  (IF direct THEN 12 ELSE 0)
        + (IF HasYear(text) /\ numeric THEN 5 ELSE 0)
        + (IF near THEN 8 ELSE 0)

RECURSIVE SumBoost(_, _)
SumBoost(text, months) ==
    IF months = <<>> THEN 0
    ELSE BoostOfMonth(text, Head(months)) + SumBoost(text, Tail(months))

\* month_boost(meta, doc, months)
month_boost(meta, doc, months) ==
    SumBoost(LowerAll(meta.period \cup meta.title \cup doc), months)

(***************************************************************************)
(* Candidates, parent collapse, sort.                                      *)
(***************************************************************************)
MaxCand == 3           \* longest nearest-neighbour list of the model
MaxK == 2              \* largest number of promos asked for

N_RESULTS_4 == 8       \* 4.bca_scraper_query.py: n_results=8
TOP_4 == 5             \* 4.bca_scraper_query.py: [:5]
OVERSAMPLE == 8        \* 5.llm_model.py: n_results * 8
OVERSAMPLE_FLOOR == 40 \* 5.llm_model.py: max(..., 40)

\* seq[:n]
Take(seq, n) == SubSeq(seq, 1, Min(Max(n, 0), Len(seq)))

\* collection.query(n_results=n): the n nearest rows, nearest first
Query(n) == Take(ranking, n)

\* f"row-{i}" for the rows a query can return here
RowKeys == <<"row-0", "row-1", "row-2", "row-3", "row-4", "row-5", "row-6", "row-7">>

\* ids of the rows of a nearest-neighbour list
RowIds == <<"x#chunk-0", "x#chunk-1", "x#chunk-2", "x#chunk-3", "x#chunk-4", "x#chunk-5",
            "x#chunk-6", "x#chunk-7">>

\* meta.get("parent_id") or meta.get("id") or f"row-{i}"; no indexer writes "id"
ParentKey(meta, i) == IF meta.parent_id # NoValue THEN meta.parent_id ELSE RowKeys[i + 1]

\* 4. lines 102-116: one scored item per row, i counted from 0
ScoredItem4(row, i, months) ==
    [parent_id |-> ParentKey(row.metadata, i),
     score |-> base_score(row.distance) + month_boost(row.metadata, row.document, months),
     base_similarity |-> base_score(row.distance),
     document |-> row.document,
     meta |-> row.metadata]

\* 5. lines 51-65: the same without a boost
ScoredItem5(row, i) ==
    [parent_id |-> ParentKey(row.metadata, i),
     score |-> base_score(row.distance),
     base_similarity |-> base_score(row.distance),
     document |-> row.document,
     meta |-> row.metadata]

PositionOf(acc, pid) == CHOOSE n \in 1..Len(acc) : acc[n].parent_id = pid
HasParent(acc, pid) == \E n \in 1..Len(acc) : acc[n].parent_id = pid

\* a collapse that keeps every better chunk as one more entry
KeepBest_Append(acc, it) ==
    IF ~HasParent(acc, it.parent_id) \/ it.score > acc[PositionOf(acc, it.parent_id)].score
    THEN Append(acc, it)
    ELSE acc

\* a collapse that raises the score of the entry and leaves its other fields
KeepBest_ScoreOnly(acc, it) ==
    IF ~HasParent(acc, it.parent_id)
    THEN Append(acc, it)
    ELSE IF it.score > acc[PositionOf(acc, it.parent_id)].score
    THEN [acc EXCEPT ![PositionOf(acc, it.parent_id)].score = it.score]
    ELSE acc

\* `if pid not in best_by_parent or it["score"] > best_by_parent[pid]["score"]`:
\* a dict keeps the place of a key that is assigned again
KeepBest(acc, it) ==
    IF ~HasParent(acc, it.parent_id)
    THEN Append(acc, it)
    ELSE IF it.score > acc[PositionOf(acc, it.parent_id)].score
    THEN [acc EXCEPT ![PositionOf(acc, it.parent_id)] = it]
    ELSE acc

RECURSIVE best_by_parent(_, _)
best_by_parent(its, acc) ==
    IF its = <<>> THEN acc ELSE best_by_parent(Tail(its), KeepBest(acc, Head(its)))

\* a descending order that puts an element before its equals
InsertDesc_BeforeEquals(sorted, x) ==
    LET p == Cardinality({n \in 1..Len(sorted) : sorted[n].score > x.score})
    IN  SubSeq(sorted, 1, p) \o <<x>> \o SubSeq(sorted, p + 1, Len(sorted))

\* sorted(..., reverse=True) is stable: x goes behind everything not smaller
InsertDesc(sorted, x) ==
    LET p == Cardinality({n \in 1..Len(sorted) : sorted[n].score >= x.score})
    IN  SubSeq(sorted, 1, p) \o <<x>> \o SubSeq(sorted, p + 1, Len(sorted))

RECURSIVE SortedDesc(_)
SortedDesc(seq) ==
    IF seq = <<>> THEN <<>>
    ELSE InsertDesc(SortedDesc(SubSeq(seq, 1, Len(seq) - 1)), seq[Len(seq)])

\* 2. lines 52-54: parent = m.get("parent_id", mid), score = 1.0 - dists[i]
ScoredItem2(row) ==
    [parent_id |-> IF row.metadata.parent_id # NoValue THEN row.metadata.parent_id ELSE row.id,
     score |-> base_score(row.distance),
     base_similarity |-> base_score(row.distance),
     document |-> row.document,
     meta |-> row.metadata]

\* 2. lines 55-72: grouped[parent]; the first row sets the fields, later rows add
\* a snippet and raise best_score (kept here in the field score)
Group2(acc, it) ==
    IF ~HasParent(acc, it.parent_id)
    THEN Append(acc, [parent_id |-> it.parent_id, score |-> it.score,
                      snippets |-> <<it.document>>, meta |-> it.meta])
    ELSE LET n == PositionOf(acc, it.parent_id)
         IN  [acc EXCEPT ![n] = [@ EXCEPT !.snippets = Append(@, it.document),
                                          !.score = IF it.score > @ THEN it.score ELSE @]]

RECURSIVE grouped(_, _)
grouped(rows, acc) ==
    IF rows = <<>> THEN acc ELSE grouped(Tail(rows), Group2(acc, Head(rows)))

(***************************************************************************)
(* Inputs of the query engines.                                            *)
(***************************************************************************)
Queries ==
    {{"promo", "bulan", "agustus"}, {"Ada", "promo", "restaurant", "ga"}}

ParentIds == {"pA", "pB"}
Distances == {10, 20}
QueryPeriods == {{}, {"1", "Agustus", "2025"}}

Candidates ==
    [id : {NoValue},
     metadata : [parent_id : ParentIds \cup {NoValue}, title : {{"Promo", "Merdeka"}},
                 period : QueryPeriods],
     document : {{"diskon"}},
     distance : Distances]

\* the words by which the text of one row differs from the text of every other
RowWords == <<"bagian0", "bagian1", "bagian2", "bagian3", "bagian4", "bagian5",
              "bagian6", "bagian7">>

\* the rows of a nearest-neighbour list have distinct ids and distinct texts
WithIds(seq) ==
    [n \in 1..Len(seq) |-> [seq[n] EXCEPT !.id = RowIds[n],
                                          !.document = @ \cup {RowWords[n]}]]

\* nearest first
Nearest(seq) == \A n \in 1..(Len(seq) - 1) : seq[n].distance <= seq[n + 1].distance

Rankings ==
    UNION {{WithIds(sq) : sq \in {x \in [1..len -> Candidates] : Nearest(x)}} : len \in 0..MaxCand}

SyncIdle ==
    /\ store = {} /\ pc = "idle" /\ data = <<>> /\ idx = 0 /\ existing_docs = {}
    /\ cause = NoValue /\ store0 = {} /\ sameInput = FALSE /\ prevOk = FALSE

QInit ==
    /\ SyncIdle
    /\ ConcIdle
    /\ indexed_by \in Providers
    /\ LlmIdle
    /\ ChunkIdle
    /\ qtokens \in Queries
    /\ top_k \in 1..MaxK
    /\ ranking \in Rankings
    /\ n_results = 0
    /\ raw = <<>>
    /\ items = <<>>
    /\ results = <<>>
    /\ qpc = "ready"

\* 2.bca_query.py search_promos(query, top_k)
Search2 ==
    /\ qpc = "ready"
    /\ Accepts(indexed_by, QueryModel.search2)
    /\ n_results' = top_k
    /\ raw' = Query(n_results')
    /\ items' = [n \in 1..Len(raw') |-> ScoredItem2(raw'[n])]
    /\ results' = SortedDesc(grouped(items', <<>>))
    /\ qpc' = "search2"
    /\ UNCHANGED <<syncVars, qtokens, top_k, ranking, restVars>>

\* 4.bca_scraper_query.py, the script from the query to `reranked`
Search4 ==
    /\ qpc = "ready"
    /\ Accepts(indexed_by, QueryModel.search4)
    /\ n_results' = N_RESULTS_4
    /\ raw' = Query(n_results')
    /\ items' = [n \in 1..Len(raw') |-> ScoredItem4(raw'[n], n - 1, detect_months(qtokens))]
    /\ results' = Take(SortedDesc(best_by_parent(items', <<>>)), TOP_4)
    /\ qpc' = "search4"
    /\ UNCHANGED <<syncVars, qtokens, top_k, ranking, restVars>>

\* 5.llm_model.py search_promos(query_text, n_results)
Search5 ==
    /\ qpc = "ready"
    /\ Accepts(indexed_by, QueryModel.search5)
    /\ n_results' = Max(top_k * OVERSAMPLE, OVERSAMPLE_FLOOR)
    /\ raw' = Query(n_results')
    /\ items' = [n \in 1..Len(raw') |-> ScoredItem5(raw'[n], n - 1)]
    /\ results' = Take(SortedDesc(best_by_parent(items', <<>>)), top_k)
    /\ qpc' = "search5"
    /\ UNCHANGED <<syncVars, qtokens, top_k, ranking, restVars>>

QNext == Search2 \/ Search4 \/ Search5

QuerySpec == QInit /\ [][QNext]_vars

(***************************************************************************)
(* Month boost on pairs of candidates: the script of 4.bca_scraper_query   *)
(* run on two rows of equal distance and different parents.                *)
(***************************************************************************)
BoostQueries ==
    {{"promo", "agustus"}, {"promo", "oktober"}, {"promo", "agustus", "september"},
     {"promo", "restaurant"}}

BoostTitles == {{"Promo", "Merdeka"}, {"Promo", "Agustus"}, {"Promo", "8", "Hari"}}

BoostPeriods ==
    {{}, {"Agustus"}, {"2025"}, {"1", "Agustus", "2025"}, {"05", "17", "Agu", "2025"},
     {"01", "10", "Jan", "2025"}, {"Sep", "2025"}, {"010", "2025"}, {"Okt"}}

BoostRow(n, title, period) ==
    [id |-> RowIds[n],
     metadata |-> [parent_id |-> IF n = 1 THEN "pA" ELSE "pB", title |-> title,
                   period |-> period],
     document |-> {"diskon"},
     distance |-> 10]

BoostInit ==
    /\ SyncIdle
    /\ ConcIdle
    /\ indexed_by = LOCAL_MODEL
    /\ LlmIdle
    /\ ChunkIdle
    /\ qtokens \in BoostQueries
    /\ top_k = 1
    /\ \E t1 \in BoostTitles, t2 \in BoostTitles, p1 \in BoostPeriods, p2 \in BoostPeriods :
          ranking = <<BoostRow(1, t1, p1), BoostRow(2, t2, p2)>>
    /\ n_results = 0
    /\ raw = <<>>
    /\ items = <<>>
    /\ results = <<>>
    /\ qpc = "ready"

BoostSpec == BoostInit /\ [][Search4]_vars

(***************************************************************************)
(* Query engines: properties.                                              *)
(***************************************************************************)
Searched == qpc \in {"search2", "search4", "search5"}

\* the number of promos the entry point hands back at most
Wanted == IF qpc = "search4" THEN TOP_4 ELSE top_k

\* the grouping keys among the scored rows, the best final score of a key and
\* the place where the key is first seen in the nearest-neighbour list
Keys == {items[n].parent_id : n \in 1..Len(items)}
RowsOf(key) == {n \in 1..Len(items) : items[n].parent_id = key}
BestScore(key) == CHOOSE sc \in {items[n].score : n \in RowsOf(key)} :
                      \A n \in RowsOf(key) : items[n].score <= sc
FirstSeen(key) == CHOOSE n \in RowsOf(key) : \A m \in RowsOf(key) : n <= m
Before(k1, k2) ==
    \/ BestScore(k1) > BestScore(k2)
    \/ BestScore(k1) = BestScore(k2) /\ FirstSeen(k1) < FirstSeen(k2)

\* C8: the result list never holds two entries of the same parent, neither by
\* grouping key nor by the parent_id of the entries' metadata.
C8_OneEntryPerParent ==
    Searched =>
        \A m, n \in 1..Len(results) :
            m # n =>
                /\ results[m].parent_id # results[n].parent_id
                /\ results[m].meta.parent_id # NoValue
                       => results[m].meta.parent_id # results[n].meta.parent_id

\* two rows of one promo came back, a later one scoring higher, and the list has two entries
C8_Witness ==
    /\ Searched
    /\ Len(results) >= 2
    /\ \E m, n \in 1..Len(items) :
          /\ m < n
          /\ items[m].parent_id = items[n].parent_id
          /\ items[m].score < items[n].score

\* C9: the list holds the parents by non-increasing best final score, equal
\* scores in first-seen order, cut after the first K of that order, and all
\* of them when there are fewer than K.
C9_SortedTopK ==
    Searched =>
        /\ Len(results) = Min(Wanted, Cardinality(Keys))
        /\ \A n \in 1..Len(results) :
              /\ results[n].parent_id \in Keys
              /\ results[n].score = BestScore(results[n].parent_id)
        /\ \A m, n \in 1..Len(results) :
              m < n => Before(results[m].parent_id, results[n].parent_id)
        /\ \A n \in 1..Len(results) :
              \A key \in Keys \ {results[m].parent_id : m \in 1..Len(results)} :
                  Before(results[n].parent_id, key)

\* a tie at the head of the list and a parent cut off by K
C9_Witness ==
    /\ Searched
    /\ Len(results) >= 2
    /\ results[1].score = results[2].score
    /\ Cardinality(Keys) > Len(results)

PeriodHas(row, mm) == AnySynonym(month_table[mm], LowerAll(row.metadata.period))
TitleOrTextHas(row, mm) ==
    AnySynonym(month_table[mm], LowerAll(row.metadata.title \cup row.document))
SameButPeriod(r1, r2) ==
    /\ r1.distance = r2.distance
    /\ r1.metadata.title = r2.metadata.title
    /\ r1.document = r2.document

\* C10 as stated: of two rows alike but for the period, the one whose period
\* holds a synonym of a detected month scores strictly higher.
C10_MonthBoostMonotone ==
    qpc = "search4" =>
        \A a, b \in 1..Len(raw) :
            \A k \in 1..Len(detect_months(qtokens)) :
                (/\ SameButPeriod(raw[a], raw[b])
                 /\ PeriodHas(raw[a], detect_months(qtokens)[k])
                 /\ ~PeriodHas(raw[b], detect_months(qtokens)[k]))
                    => items[a].score > items[b].score

\* C10 amended: when exactly one month is detected and the common title and
\* text hold no synonym of it, the row whose period holds one scores strictly
\* higher than the row whose period holds none.
C10_MonthBoostMonotoneSingle ==
    (qpc = "search4" /\ Len(detect_months(qtokens)) = 1) =>
        \A a, b \in 1..Len(raw) :
            (/\ SameButPeriod(raw[a], raw[b])
             /\ ~TitleOrTextHas(raw[a], detect_months(qtokens)[1])
             /\ PeriodHas(raw[a], detect_months(qtokens)[1])
             /\ ~PeriodHas(raw[b], detect_months(qtokens)[1]))
                => items[a].score > items[b].score

\* such a pair, whose row without the synonym is boosted all the same
C10_Witness ==
    /\ qpc = "search4"
    /\ Len(detect_months(qtokens)) = 1
    /\ \E a, b \in 1..Len(raw) :
          /\ SameButPeriod(raw[a], raw[b])
          /\ ~TitleOrTextHas(raw[a], detect_months(qtokens)[1])
          /\ PeriodHas(raw[a], detect_months(qtokens)[1])
          /\ ~PeriodHas(raw[b], detect_months(qtokens)[1])
          /\ items[b].score > items[b].base_similarity

(***************************************************************************)
(* The example scenario: the script of 4.bca_scraper_query.py on promo A   *)
(* (period "05-17 Agu 2025") and promo B (period "01-10 Jan 2025"), the    *)
(* periods as extract_period writes them with MONTH_ID, for the query      *)
(* "promo bulan agustus".                                                  *)
(***************************************************************************)
ExampleQuery == {"promo", "bulan", "agustus"}
ExamplePeriodA == {"05", "17", "Agu", "2025"}
ExamplePeriodB == {"01", "10", "Jan", "2025"}
ExampleDistances == {5, 10, 11, 15, 21, 22, 30}
ExampleTitles == {{"Promo", "Merdeka"}, {"Promo", "Kuliner"}}
ExampleDocuments == {{"diskon"}, {"cashback", "50"}}

ExampleRow(n, parent, title, period, doc, dist) ==
    [id |-> RowIds[n],
     metadata |-> [parent_id |-> parent, title |-> title, period |-> period],
     document |-> doc,
     distance |-> dist]

ExampleInit ==
    /\ SyncIdle
    /\ ConcIdle
    /\ indexed_by = LOCAL_MODEL
    /\ LlmIdle
    /\ ChunkIdle
    /\ qtokens = ExampleQuery
    /\ top_k = 1
    /\ \E tA \in ExampleTitles, tB \in ExampleTitles, doc \in ExampleDocuments,
          dA \in ExampleDistances, dB \in ExampleDistances :
          \/ /\ dA <= dB
             /\ ranking = <<ExampleRow(1, "pA", tA, ExamplePeriodA, doc, dA),
                            ExampleRow(2, "pB", tB, ExamplePeriodB, doc, dB)>>
          \/ /\ dB <= dA
             /\ ranking = <<ExampleRow(1, "pB", tB, ExamplePeriodB, doc, dB),
                            ExampleRow(2, "pA", tA, ExamplePeriodA, doc, dA)>>
    /\ n_results = 0
    /\ raw = <<>>
    /\ items = <<>>
    /\ results = <<>>
    /\ qpc = "ready"

ExampleSpec == ExampleInit /\ [][Search4]_vars

\* the place of a parent in the result list and its raw similarity
RankOf(pid) == CHOOSE n \in 1..Len(results) : results[n].parent_id = pid
SimilarityOf(pid) == results[RankOf(pid)].base_similarity

\* the fixed boost of a direct synonym match (line 81), in hundredths
DIRECT_BOOST == 12

\* C11: for the query "promo bulan agustus" the detected months are {08}, and
\* A (period "05-17 Agu 2025") stands above B (period "01-10 Jan 2025") in the
\* result list whenever B's raw similarity exceeds A's by less than the boost.
C11_ExampleRanksAAboveB ==
    qpc = "search4" =>
        /\ detect_months(qtokens) = <<"08">>
        /\ (/\ SimilarityOf("pB") > SimilarityOf("pA")
            /\ SimilarityOf("pB") - SimilarityOf("pA") < DIRECT_BOOST)
               => RankOf("pA") < RankOf("pB")

(***************************************************************************)
(* 5.llm_model.py: search_promos called directly or through ask_llm, with  *)
(* the calls that can raise, and the fallback JSON file of ask_llm.        *)
(***************************************************************************)
MaxFile == 3           \* longest fallback file of the model

\* the calls of search_promos that can raise (lines 37, 38, 40, 41, 45)
RetrievalFailures == {"connect", "get_collection", "load_model", "encode", "query"}

\* what a path's caller sees when it raises
RaisedPc == [search2 |-> "raised2", search4 |-> "raised4", search5 |-> "raised5"]

\* records of the fallback file; a key may be missing
FallbackRecords ==
    {[title |-> "Promo A", period |-> "1 Agustus 2025", description |-> "diskon a"],
     [title |-> "Promo B", period |-> NoValue, description |-> "diskon b"],
     [title |-> "Promo C", period |-> "", description |-> NoValue]}

Distinct(seq) == \A m, n \in 1..Len(seq) : m # n => seq[m] # seq[n]

FallbackFiles ==
    {[loads |-> FALSE, records |-> <<>>]} \cup
    {[loads |-> TRUE, records |-> f] :
        f \in UNION {{g \in [1..len -> FallbackRecords] : Distinct(g)} : len \in 0..MaxFile}}

\* it.get(key, "")
GetOr(v, default) == IF v = NoValue THEN default ELSE v

\* lines 168-176: one context entry per record
FallbackItem(it) ==
    [title |-> GetOr(it.title, ""), period |-> GetOr(it.period, ""),
     description |-> GetOr(it.description, "")]

\* a fallback that keeps the last k records
fallback_context_last(file, k) ==
    [n \in 1..Min(k, Len(file)) |-> FallbackItem(file[Len(file) - Min(k, Len(file)) + n])]

\* lines 167-178: [... for it in raw[:top_k]]
fallback_context(file, k) ==
    [n \in 1..Len(Take(file, k)) |-> FallbackItem(Take(file, k)[n])]

\* search_promos lines 77-96: the output entries
Output5(reranked) ==
    [n \in 1..Len(reranked) |->
        [rank |-> n, title |-> reranked[n].meta.title, period |-> reranked[n].meta.period,
         similarity |-> reranked[n].base_similarity, description |-> reranked[n].document]]

Rows5(k) == Query(Max(k * OVERSAMPLE, OVERSAMPLE_FLOOR))
Items5(k) == [n \in 1..Len(Rows5(k)) |-> ScoredItem5(Rows5(k)[n], n - 1)]
Reranked5(k) == Take(SortedDesc(best_by_parent(Items5(k), <<>>)), k)

LlmRankings == {r \in Rankings : Len(r) <= 1}

LlmInit ==
    /\ SyncIdle
    /\ ConcIdle
    /\ ChunkIdle
    /\ qtokens = {"Ada", "promo", "restaurant", "ga"}
    /\ top_k \in 1..MaxK
    /\ ranking \in LlmRankings
    /\ n_results = 0
    /\ raw = <<>>
    /\ items = <<>>
    /\ results = <<>>
    /\ qpc = "ready"
    /\ indexed_by \in Providers
    /\ warned = FALSE
    /\ retrieval = NoValue
    /\ fallback_file \in FallbackFiles
    /\ allow_fallback \in BOOLEAN
    /\ context = <<>>
    /\ lpc = "ready"
    /\ error = NoValue

\* a query path called directly raises: none of 2., 4., 5. catches anything
SearchRaises ==
    /\ qpc = "ready"
    /\ \E path \in DOMAIN QueryModel, fail \in RetrievalFailures :
          /\ qpc' = RaisedPc[path]
          /\ error' = fail
    /\ UNCHANGED <<syncVars, qtokens, top_k, ranking, n_results, raw, items, results, chunkVars, concVars,
                   indexed_by, warned, retrieval, fallback_file, allow_fallback, context, lpc>>

\* ask_llm(user_question, top_k, allow_fallback=...), lines 154-198
ask_llm ==
    /\ qpc = "ready"
    /\ lpc = "ready"
    /\ qpc' = "ask_llm"
    /\ \E key \in BOOLEAN, fail \in RetrievalFailures \cup {NoValue}, groq_ok \in BOOLEAN :
          IF ~key
          THEN \* lines 154-155
               /\ lpc' = "raised"
               /\ error' = "GROQ_API_KEY not found"
               /\ UNCHANGED <<n_results, raw, items, results, warned, retrieval, context>>
          ELSE LET failed == fail # NoValue \/ ~Accepts(indexed_by, QueryModel.search5)
                   found == IF failed THEN <<>> ELSE Output5(Reranked5(top_k))
                   usable == fallback_file.loads
               IN  /\ retrieval' = IF failed THEN "failed" ELSE "ok"
                   /\ warned' = failed                             \* line 161
                   /\ n_results' = IF failed THEN 0 ELSE Max(top_k * OVERSAMPLE, OVERSAMPLE_FLOOR)
                   /\ raw' = IF failed THEN <<>> ELSE Rows5(top_k)
                   /\ items' = IF failed THEN <<>> ELSE Items5(top_k)
                   /\ results' = IF failed THEN <<>> ELSE Reranked5(top_k)
                   /\ IF found = <<>> /\ allow_fallback
                      THEN IF ~usable
                           THEN \* lines 180-183
                                /\ context' = <<>>
                                /\ lpc' = "raised"
                                /\ error' = "No context found and fallback JSON loading failed."
                           ELSE /\ context' = fallback_context(fallback_file.records, top_k)
                                /\ lpc' = IF groq_ok THEN "answered" ELSE "raised"
                                /\ error' = IF groq_ok THEN NoValue ELSE "groq"
                      ELSE /\ context' = found
                           /\ lpc' = IF groq_ok THEN "answered" ELSE "raised"
                           /\ error' = IF groq_ok THEN NoValue ELSE "groq"
    /\ UNCHANGED <<syncVars, qtokens, top_k, ranking, chunkVars, concVars, indexed_by, fallback_file,
                   allow_fallback>>

LlmNext == Search2 \/ Search4 \/ Search5 \/ SearchRaises \/ ask_llm

LlmSpec == LlmInit /\ [][LlmNext]_vars

(***************************************************************************)
(* Query paths and ask_llm: properties.                                    *)
(***************************************************************************)
\* C12: a query embedded with another model than the one that made the stored
\* vectors is rejected or warned about: whenever a query path has handed back
\* what the store returned, its model is the collection's or a warning was given.
C12_ProviderMismatchNoticed ==
    /\ \A path \in DOMAIN QueryModel :
          (qpc = path /\ QueryModel[path] # indexed_by) => warned
    /\ (qpc = "ask_llm" /\ retrieval = "ok" /\ QueryModel.search5 # indexed_by) => warned

\* C13: when retrieval failed and the fallback is allowed, the context is the
\* first top_k records of the fallback file in file order, and when the file
\* does not load the call ends with an error.
C13_FallbackInFileOrder ==
    (qpc = "ask_llm" /\ retrieval = "failed" /\ allow_fallback) =>
        IF fallback_file.loads
        THEN /\ Len(context) = Min(top_k, Len(fallback_file.records))
             /\ \A n \in 1..Len(context) : context[n] = FallbackItem(fallback_file.records[n])
        ELSE /\ lpc = "raised"
             /\ error = "No context found and fallback JSON loading failed."

\* retrieval failed, the file holds more than top_k records and the call answered
C13_Witness ==
    /\ qpc = "ask_llm"
    /\ retrieval = "failed"
    /\ allow_fallback
    /\ fallback_file.loads
    /\ Len(fallback_file.records) > top_k
    /\ lpc = "answered"

\* C14: a failing query embedding or store query ends the call with an error:
\* a search path called directly raises and hands nothing back, and ask_llm
\* with the fallback disabled does not answer after a failed retrieval.
C14_RetrievalErrorSurfaced ==
    /\ \A path \in DOMAIN RaisedPc :
          qpc = RaisedPc[path] => (results = <<>> /\ error \in RetrievalFailures)
    /\ (qpc = "ask_llm" /\ retrieval = "failed" /\ ~allow_fallback) => lpc = "raised"

(***************************************************************************)
(* The chunkers: chunk_text of 1.bca_scraper_cohere.py and                 *)
(* 3.bca_scraper_senteces.py (the same code) and smart_chunks of           *)
(* 6.new_rag_test.py.  A returned chunk is kept with its span [start, end) *)
(* in the stripped text, the slice the chunk was cut from.                 *)
(***************************************************************************)
MaxText == 4           \* longest enumerated text

MAX_CHARS_PER_CHUNK == 1200    \* 6.new_rag_test.py line 24
MIN_CHARS_PER_CHUNK == 300     \* 6.new_rag_test.py line 25
OVERLAP_CHARS == 100           \* 6.new_rag_test.py line 26

\* s.replace("\r", "\n")
ReplaceCR(s) == [k \in 1..Len(s) |-> IF s[k] = "\r" THEN "\n" ELSE s[k]]

\* clean_text, lines 34-35
clean_text(s) == strip(ReplaceCR(s))

\* window.rfind(pat): the last 0-based index where pat starts, or -1
rfind(window, pat) ==
    LET hits == {i \in 0..(Len(window) - Len(pat)) : Slice(window, i, i + Len(pat)) = pat}
    IN  IF hits = {} THEN -1 ELSE CHOOSE i \in hits : \A j \in hits : j <= i

\* lines 56-58
split_index(window) ==
    Max(Max(rfind(window, <<"\n", "\n">>), rfind(window, <<"\n">>)), rfind(window, <<".", " ">>))

\* a step that leaves one more character shared than the overlap
smart_next_start_more(start, end, overlap) == Max(end - overlap - 1, start + 1)

\* line 64: start = max(end - overlap, start + 1)
smart_next_start(start, end, overlap) == Max(end - overlap, start + 1)

\* lines 52-66: one turn of the while loop per call
RECURSIVE smart_loop(_, _, _, _, _)
smart_loop(s, start, max_chars, overlap, min_chars) ==
    IF start < Len(s)
    THEN LET hard == Min(start + max_chars, Len(s))
             split_idx == split_index(Slice(s, start, hard))
             end == IF hard < Len(s) /\ split_idx # -1 /\ split_idx >= min_chars \div 2
                    THEN start + split_idx + 1
                    ELSE hard
             chunk == strip(Slice(s, start, end))
             kept == IF Len(chunk) >= min_chars
                     THEN <<[start |-> start, end |-> end, text |-> chunk]>>
                     ELSE <<>>
             next == smart_next_start(start, end, overlap)
         IN  IF next >= Len(s)
             THEN kept
             ELSE kept \o smart_loop(s, next, max_chars, overlap, min_chars)
    ELSE <<>>

\* smart_chunks, lines 38-67
smart_chunks(t, max_chars, overlap, min_chars) ==
    LET s == clean_text(t)
        whole == <<[start |-> 0, end |-> Len(s), text |-> s]>>
    IN  IF s = <<>> THEN <<>>
        ELSE IF Len(s) <= max_chars
        THEN IF Len(s) >= min_chars THEN whole ELSE <<>>
        ELSE IF smart_loop(s, 0, max_chars, overlap, min_chars) = <<>>
        THEN whole
        ELSE smart_loop(s, 0, max_chars, overlap, min_chars)

\* the spans of chunk_text's chunks (3. lines 120-125)
RECURSIVE chunk_spans(_, _, _, _)
chunk_spans(len, start, max_chars, overlap) ==
    IF start < len
    THEN LET end == Min(start + max_chars, len)
         IN  IF end = len
             THEN <<[start |-> start, end |-> end]>>
             ELSE <<[start |-> start, end |-> end]>>
                      \o chunk_spans(len, Max(0, end - overlap), max_chars, overlap)
    ELSE <<>>

\* chunk_text with the span of every chunk
chunk_text_spans(t, max_chars, overlap) ==
    LET spans == chunk_spans(Len(strip(t)), 0, max_chars, overlap)
        texts == chunk_text(t, max_chars, overlap)
    IN  [n \in 1..Len(texts) |->
            [start |-> spans[n].start, end |-> spans[n].end, text |-> texts[n]]]

TextAlphabet == {"a", " ", "\n", "."}

SmallTexts ==
    UNION {[1..len -> TextAlphabet] : len \in 0..MaxText} \cup {<<"a", "\r", "a", "a">>}

SmallParams == [max_chars : 2..3, overlap : 0..2, min_chars : 0..4]

ChunkInit ==
    /\ SyncIdle
    /\ ConcIdle
    /\ QueryIdle
    /\ indexed_by = LOCAL_MODEL
    /\ LlmIdle
    /\ ctext \in SmallTexts
    /\ cparams \in SmallParams
    /\ cchunks = <<>>
    /\ cpc = "ready"
    /\ cstart = 0

\* chunk_text(text, max_chars, overlap); with overlap >= max_chars the loop of
\* lines 120-125 never advances and the call does not return
ChunkText ==
    /\ cpc = "ready"
    /\ cparams.overlap < cparams.max_chars
    /\ cchunks' = chunk_text_spans(ctext, cparams.max_chars, cparams.overlap)
    /\ cpc' = "chunk_text"
    /\ UNCHANGED <<syncVars, queryVars, llmVars, concVars, ctext, cparams, cstart>>

\* smart_chunks(s, max_chars, overlap, min_chars)
SmartChunks ==
    /\ cpc = "ready"
    /\ cchunks' = smart_chunks(ctext, cparams.max_chars, cparams.overlap, cparams.min_chars)
    /\ cpc' = "smart_chunks"
    /\ UNCHANGED <<syncVars, queryVars, llmVars, concVars, ctext, cparams, cstart>>

ChunkNext == ChunkText \/ SmartChunks

ChunkSpec == ChunkInit /\ [][ChunkNext]_vars

(***************************************************************************)
(* Chunkers: properties.                                                   *)
(***************************************************************************)
Chunked == cpc \in {"chunk_text", "smart_chunks"}

\* the text the spans refer to
Stripped == IF cpc = "smart_chunks" THEN clean_text(ctext) ELSE strip(ctext)

\* C15: for a text longer than max_chars the first chunk starts at position 0
\* and every chunk starts at or before the end of the chunk before it, so the
\* spans cover the text up to the end of the last chunk without a gap.
C15_ChunkCoverage ==
    (Chunked /\ Len(Stripped) > cparams.max_chars) =>
        /\ cchunks # <<>>
        /\ cchunks[1].start = 0
        /\ \A n \in 1..(Len(cchunks) - 1) : cchunks[n + 1].start <= cchunks[n].end

\* C16: two consecutive chunks never share more characters than the overlap.
C16_OverlapBound ==
    Chunked =>
        \A n \in 1..(Len(cchunks) - 1) :
            Max(0, cchunks[n].end - cchunks[n + 1].start) <= cparams.overlap

\* smart_chunks returned two chunks that share exactly the overlap, which is not 0
C16_Witness ==
    /\ cpc = "smart_chunks"
    /\ cparams.overlap > 0
    /\ \E n \in 1..(Len(cchunks) - 1) :
          cchunks[n].end - cchunks[n + 1].start = cparams.overlap

\* C17: no returned chunk is longer than max_chars, the whole-text fallback included.
C17_ChunkWithinBudget ==
    Chunked => \A n \in 1..Len(cchunks) : Len(cchunks[n].text) <= cparams.max_chars

(***************************************************************************)
(* The other two indexers, which write to the same collection:             *)
(* main() of 1.bca_scraper_cohere.py (crawl, no drop, upsert in batches)   *)
(* and main() of 6.new_rag_test.py (recreate the collection, load          *)
(* promos.json, build_documents_from_promo, add in batches).               *)
(***************************************************************************)
MidLen == 400          \* a description of one chunk for smart_chunks' defaults

BATCH_SIZE_1 == 96     \* 1.bca_scraper_cohere.py line 32
BATCH_SIZE_6 == 32     \* 6.new_rag_test.py line 28

\* promo.get(key, default)
Get(promo, key, default) == IF key \in DOMAIN promo THEN promo[key] ELSE default

\* the characters of the literals of build_documents_from_promo
TitleLabel == <<"T", "i", "t", "l", "e", ":", " ">>
PeriodLabel == <<"P", "e", "r", "i", "o", "d", ":", " ">>
DescriptionLabel == <<"D", "e", "s", "c", "r", "i", "p", "t", "i", "o", "n", ":", "\n">>
UrlLabel == <<"U", "R", "L", ":", " ">>
UrlText == [u1 |-> <<"u", "1">>, u2 |-> <<"u", "2">>]

\* "\n\n".join(parts)
RECURSIVE JoinParts(_)
JoinParts(parts) ==
    IF parts = <<>> THEN <<>>
    ELSE IF Len(parts) = 1 THEN parts[1]
    ELSE parts[1] \o <<"\n", "\n">> \o JoinParts(Tail(parts))

\* lines 84-94: the parts that are not empty, joined and stripped
base_text(title, period, description) ==
    strip(JoinParts(
        <<TitleLabel \o title>>
        \o (IF period # <<>> THEN <<PeriodLabel \o period>> ELSE <<>>)
        \o (IF description # <<>> THEN <<DescriptionLabel \o description>> ELSE <<>>)))

\* lines 119: f"Title: {title}\nURL: {url}\nPeriod: {period}"
synthetic_text(title, url, period) ==
    TitleLabel \o title \o <<"\n">> \o UrlLabel \o UrlText[url] \o <<"\n">> \o PeriodLabel \o period

\* f"{promo_id}::chunk-{i}"
DocId(promo_id, i) == <<promo_id, "::chunk-", i>>

\* lines 100-111 and 120-131: the metadata of a document
Metadata6(promo, promo_id, i) ==
    [promo_id |-> promo_id, chunk_index |-> i,
     title |-> clean_text(Get(promo, "title", <<>>)), url |-> promo.url,
     period |-> clean_text(Get(promo, "period", <<>>)),
     scrape_date |-> Get(promo, "scrape_date", NoValue)]

\* line 82: promo.get("id") or uuid.uuid4().hex
promo_id_of(promo, fresh) == IF "id" \in DOMAIN promo THEN promo.id ELSE fresh

\* build_documents_from_promo, lines 70-134; fresh is what uuid4() returns
build_documents_from_promo(promo, fresh) ==
    LET title == clean_text(Get(promo, "title", <<>>))
        description == clean_text(Get(promo, "description", <<>>))
        period == clean_text(Get(promo, "period", <<>>))
        promo_id == promo_id_of(promo, fresh)
        found == smart_chunks(base_text(title, period, description), MAX_CHARS_PER_CHUNK,
                              OVERLAP_CHARS, MIN_CHARS_PER_CHUNK)
        docs == [n \in 1..Len(found) |->
                    [id |-> DocId(promo_id, n - 1), document |-> found[n].text,
                     metadata |-> Metadata6(promo, promo_id, n - 1)]]
    IN  IF docs = <<>>
        THEN <<[id |-> DocId(promo_id, 0),
                document |-> synthetic_text(title, promo.url, period),
                metadata |-> Metadata6(promo, promo_id, 0)]>>
        ELSE docs

\* what uuid4() can return for the record at place n of the file: two values
\* for the first record, another one for the second
Uuids == <<{<<"uuid4", "a">>, <<"uuid4", "b">>}, {<<"uuid4", "c">>}>>

\* lines 184-186: all_docs, given one uuid per record
RECURSIVE all_docs(_, _, _)
all_docs(promos, fresh, n) ==
    IF n > Len(promos) THEN <<>>
    ELSE build_documents_from_promo(promos[n], fresh[n]) \o all_docs(promos, fresh, n + 1)

\* 1. lines 245-266: records, for every item its chunks in order
RECURSIVE records_of(_)
records_of(items1) ==
    IF items1 = <<>> THEN <<>>
    ELSE LET item == Head(items1)
             found == chunk_text(GetDescription(item), CHUNK_MAX_CHARS, CHUNK_OVERLAP)
         IN  [j \in 1..Len(found) |-> ChunkRecord(item, j - 1, found[j])]
                 \o records_of(Tail(items1))

\* batched(iterable, n): the first k batches hold the first k * n elements
FirstBatches(seq, n, k) == Take(seq, k * n)
BatchCount(seq, n) == (Len(seq) + n - 1) \div n

Range(seq) == {seq[n] : n \in 1..Len(seq)}

\* collection.add of rows whose ids are new
Add(s, rows) == s \cup rows

\* records of promos.json: as a scraper wrote them (with id) or without id
Promo6(url, desc, withId) ==
    IF withId
    THEN [id |-> sha256(url), url |-> url, title |-> <<"t", UrlText[url][2]>>,
          period |-> <<>>, description |-> desc, scrape_date |-> 1]
    ELSE [url |-> url, title |-> <<"t", UrlText[url][2]>>,
          period |-> <<>>, description |-> desc, scrape_date |-> 1]

PromoFiles ==
    {<<>>}
    \cup {<<Promo6("u1", d, w)>> : d \in {<<>>, Fill(MidLen, "a")}, w \in BOOLEAN}
    \cup {<<Promo6("u1", d, w), Promo6("u2", Fill(ShortLen, "c"), TRUE)>> :
             d \in {<<>>, Fill(MidLen, "a")}, w \in BOOLEAN}

\* what the crawl of 1. can return here: the first card in every way, the second
\* listed or not, one scrape date
Scrapes1 == {d \in Scrapes : \A n \in 1..Len(d) : d[n].scrape_date = 1}

IndexInit ==
    /\ store = {}
    /\ ConcIdle
    /\ pc = "idle"
    /\ data = <<>>
    /\ idx = 0
    /\ existing_docs = {}
    /\ cause = NoValue
    /\ store0 = {}
    /\ sameInput = FALSE
    /\ prevOk = FALSE
    /\ QueryIdle
    /\ indexed_by = LOCAL_MODEL
    /\ LlmIdle
    /\ ChunkIdle

Stopped_Index == pc \in {"idle", "done1", "done6", "aborted1", "aborted6"}

\* 6. main: a run starts; promos.json is what it is for the whole run
Start6 ==
    /\ Stopped_Index
    /\ \E p \in PromoFiles :
          /\ data' = p
          /\ sameInput' = (pc \in {"done6", "aborted6"} /\ p = data)
    /\ prevOk' = (pc = "done6")
    /\ store0' = store
    /\ pc' = "start6"
    /\ cause' = NoValue
    /\ UNCHANGED <<store, idx, existing_docs, queryVars, restVars>>

\* 6. lines 154-163: connect, delete the collection (a failure is only printed),
\* create_collection, which raises when the collection is still there
Recreate6 ==
    /\ pc = "start6"
    /\ \E connected \in BOOLEAN, deleted \in BOOLEAN, created \in BOOLEAN :
          IF ~connected
          THEN /\ pc' = "aborted6" /\ cause' = "connect" /\ store' = store
          ELSE /\ store' = IF deleted THEN delete_collection(store) ELSE store
               /\ IF created /\ store' = {}
                  THEN pc' = "created6" /\ cause' = cause
                  ELSE pc' = "aborted6" /\ cause' = "create_collection"
    /\ UNCHANGED <<data, idx, existing_docs, store0, sameInput, prevOk, queryVars, restVars>>

\* 6. lines 169-211: load the model, read promos.json, build all_docs, then for
\* every batch encode and add; the first call that raises ends the run
Add6 ==
    /\ pc = "created6"
    /\ \E fail \in {NoValue, "load_model", "open", "encode", "add"},
          fresh \in [1..2 -> UNION Range(Uuids)] :
          /\ \A n \in 1..2 : fresh[n] \in Uuids[n]
          /\ LET docs == all_docs(data, fresh, 1)
                 total == BatchCount(docs, BATCH_SIZE_6)
             IN  \E k \in 0..total :
                    /\ (fail \in {"load_model", "open"}) => k = 0
                    /\ (fail = NoValue) => k = total
                    /\ (fail \in {"encode", "add"}) => k < total
                    /\ store' = Add(store, Range(FirstBatches(docs, BATCH_SIZE_6, k)))
                    /\ pc' = IF fail = NoValue THEN "done6" ELSE "aborted6"
                    /\ cause' = fail
    /\ UNCHANGED <<data, idx, existing_docs, store0, sameInput, prevOk, queryVars, restVars>>

\* 1. lines 228-232: a run starts with a crawl
Crawl1 ==
    /\ Stopped_Index
    /\ \E d \in Scrapes1 :
          /\ data' = d
          /\ sameInput' = (pc \in {"done1", "aborted1"} /\ Pages(d) = Pages(data))
    /\ prevOk' = (pc = "done1")
    /\ store0' = store
    /\ pc' = "crawled1"
    /\ cause' = NoValue
    /\ UNCHANGED <<store, idx, existing_docs, queryVars, restVars>>

\* 1. lines 234-284: connect, get_or_create_collection (DROP_OLD_COLLECTION is
\* False), build the records of all items, then for every batch embed and upsert
Upsert1 ==
    /\ pc = "crawled1"
    /\ \E fail \in {NoValue, "connect", "get_or_create_collection", "embed", "upsert"} :
          LET records == records_of(data)
              total == BatchCount(records, BATCH_SIZE_1)
          IN  \E k \in 0..total :
                 /\ (fail \in {"connect", "get_or_create_collection"}) => k = 0
                 /\ (fail = NoValue) => k = total
                 /\ (fail \in {"embed", "upsert"}) => k < total
                 /\ store' = Upsert(store, Range(FirstBatches(records, BATCH_SIZE_1, k)))
                 /\ pc' = IF fail = NoValue THEN "done1" ELSE "aborted1"
                 /\ cause' = fail
    /\ UNCHANGED <<data, idx, existing_docs, store0, sameInput, prevOk, queryVars, restVars>>

IndexNext == Start6 \/ Recreate6 \/ Add6 \/ Crawl1 \/ Upsert1

IndexSpec == IndexInit /\ [][IndexNext]_vars

(***************************************************************************)
(* Indexers: properties.                                                   *)
(***************************************************************************)
Indexed == pc \in {"done1", "done6"}

\* C18: after an indexer has run to its end, every record it processed has at
\* least one chunk in the store, also a record with an empty or short description.
C18_EveryPromoHasChunk ==
    Indexed => \A n \in 1..Len(data) : \E r \in store : r.metadata.url = data[n].url

\* C19: every chunk in the store carries the metadata key parent_id, and its
\* value is the id of the promo the chunk was derived from, the id its own id
\* begins with.
C19_ParentIdInMetadata ==
    \A r \in store :
        /\ "parent_id" \in DOMAIN r.metadata
        /\ r.metadata.parent_id = r.id[1]

\* C20: an indexer that has run to its end twice in a row on the same records
\* leaves the same chunk ids the second time as the first, also for a record
\* without an id field.
C20_SameIdsInBothRuns ==
    (Indexed /\ prevOk /\ sameInput) => IdsOf(store) = IdsOf(store0)

(***************************************************************************)
(* Query engines: the chunk that stands for a parent.                      *)
(***************************************************************************)
\* the first row of a key that has the key's best final score
BestRow(key) ==
    CHOOSE n \in RowsOf(key) :
        /\ items[n].score = BestScore(key)
        /\ \A m \in RowsOf(key) : items[m].score = BestScore(key) => n <= m

\* print_results of 2. shows snippets[0]; 4. and 5. hand back the field document
Representative(res) == IF qpc = "search2" THEN res.snippets[1] ELSE res.document

\* 2. has one score, best_score; 4. and 5. carry base_similarity beside score
RawSimilarity(res) == IF qpc = "search2" THEN res.score ELSE res.base_similarity

\* C21: after the collapse every entry of the result has the final score, the
\* raw similarity and the representative text of one and the same row: the row
\* of its parent with the highest final score, the first such row on a tie.
C21_EntryIsBestChunk ==
    Searched =>
        \A n \in 1..Len(results) :
            LET best == items[BestRow(results[n].parent_id)]
            IN  /\ results[n].score = best.score
                /\ RawSimilarity(results[n]) = best.base_similarity
                /\ Representative(results[n]) = best.document

\* a later row of a parent beat the first one through its month boost
C21_Witness ==
    /\ Searched
    /\ \E n \in 1..Len(results) :
          BestRow(results[n].parent_id) # FirstSeen(results[n].parent_id)

(***************************************************************************)
(* Query engines: oversampling.                                            *)
(***************************************************************************)
\* C22: every query path asks the store for N nearest chunks with
\* N >= max(8 * K, 40), K being the number of promos it hands back at most.
C22_Oversampled ==
    Searched => n_results >= Max(OVERSAMPLE * Wanted, OVERSAMPLE_FLOOR)

(***************************************************************************)
(* Month boost: the month next to a detected month.                        *)
(***************************************************************************)
NEAR_MISS_BOOST == 8

\* f"{(int(mm)-2)%12+1:02d}" and f"{int(mm)%12+1:02d}"
PrevMonth(mm) == MonthCodes[((MonthInt(mm) - 2) % 12) + 1]
NextMonth(mm) == MonthCodes[(MonthInt(mm) % 12) + 1]

\* the text of a row holds a synonym of the month before or after mm
AdjacentHas(row, mm) ==
    LET text == LowerAll(row.metadata.period \cup row.metadata.title \cup row.document)
    IN  \/ AnySynonym(month_table[PrevMonth(mm)], text)
        \/ AnySynonym(month_table[NextMonth(mm)], text)

\* C23: for every month detected in the query, a row whose period, title or
\* text holds a synonym of the month before or after it has a final score of
\* at least its similarity plus the near-miss boost, which is smaller than the
\* direct boost.
C23_NearMissBoost ==
    /\ NEAR_MISS_BOOST < DIRECT_BOOST
    /\ qpc = "search4" =>
          \A n \in 1..Len(raw) :
              \A k \in 1..Len(detect_months(qtokens)) :
                  AdjacentHas(raw[n], detect_months(qtokens)[k])
                      => items[n].score >= items[n].base_similarity + NEAR_MISS_BOOST

(***************************************************************************)
(* Chunkers: the end of the text, and termination.                         *)
(***************************************************************************)
\* C24: when smart_chunks splits a text longer than max_chars, the last chunk
\* returned reaches the end of the text: the final slice is kept even when it
\* is shorter than min_chars.
C24_FinalSliceKept ==
    (cpc = "smart_chunks" /\ Len(Stripped) > cparams.max_chars) =>
        /\ cchunks # <<>>
        /\ cchunks[Len(cchunks)].end = Len(Stripped)

(***************************************************************************)
(* The chunkers turn by turn: one action per turn of the while loop, so    *)
(* that a loop that does not advance shows as such.                        *)
(***************************************************************************)
MaxTurns == 6          \* turns of a while loop the model follows

\* chunk_text, lines 112-119: strip, the early return, start = 0
ChunkTextBegin ==
    /\ cpc = "ready"
    /\ IF strip(ctext) = <<>>
       THEN cpc' = "chunk_text"
       ELSE cpc' = "while_chunk_text"
    /\ cchunks' = <<>>
    /\ cstart' = 0
    /\ UNCHANGED <<syncVars, queryVars, llmVars, concVars, ctext, cparams>>

\* chunk_text, lines 120-125: one turn of `while start < len(text)`
ChunkTextTurn ==
    /\ cpc = "while_chunk_text"
    /\ Len(cchunks) < MaxTurns
    /\ LET text == strip(ctext)
           end == Min(cstart + cparams.max_chars, Len(text))
       IN  /\ cchunks' = Append(cchunks, [start |-> cstart, end |-> end,
                                          text |-> Slice(text, cstart, end)])
           /\ IF end = Len(text)
              THEN cpc' = "chunk_text" /\ cstart' = cstart
              ELSE /\ cstart' = Max(0, end - cparams.overlap)
                   /\ cpc' = IF cstart' < Len(text) THEN "while_chunk_text" ELSE "chunk_text"
    /\ UNCHANGED <<syncVars, queryVars, llmVars, concVars, ctext, cparams>>

\* smart_chunks, lines 44-51: clean_text, the early returns, start = 0
SmartChunksBegin ==
    /\ cpc = "ready"
    /\ LET s == clean_text(ctext)
       IN  IF Len(s) <= cparams.max_chars
           THEN /\ cpc' = "smart_chunks"
                /\ cchunks' = IF s # <<>> /\ Len(s) >= cparams.min_chars
                              THEN <<[start |-> 0, end |-> Len(s), text |-> s]>>
                              ELSE <<>>
           ELSE /\ cpc' = "while_smart_chunks"
                /\ cchunks' = <<>>
    /\ cstart' = 0
    /\ UNCHANGED <<syncVars, queryVars, llmVars, concVars, ctext, cparams>>

\* smart_chunks, lines 52-67: one turn of `while start < len(s)`, and the
\* return when the loop is left
SmartChunksTurn ==
    /\ cpc = "while_smart_chunks"
    /\ Len(cchunks) < MaxTurns
    /\ LET s == clean_text(ctext)
           hard == Min(cstart + cparams.max_chars, Len(s))
           split_idx == split_index(Slice(s, cstart, hard))
           end == IF hard < Len(s) /\ split_idx # -1 /\ split_idx >= cparams.min_chars \div 2
                  THEN cstart + split_idx + 1
                  ELSE hard
           chunk == strip(Slice(s, cstart, end))
           chunks == IF Len(chunk) >= cparams.min_chars
                     THEN Append(cchunks, [start |-> cstart, end |-> end, text |-> chunk])
                     ELSE cchunks
       IN  /\ cstart' = smart_next_start(cstart, end, cparams.overlap)
           /\ IF cstart' >= Len(s)
              THEN /\ cpc' = "smart_chunks"
                   /\ cchunks' = IF chunks = <<>>
                                 THEN <<[start |-> 0, end |-> Len(s), text |-> s]>>
                                 ELSE chunks
              ELSE /\ cpc' = "while_smart_chunks"
                   /\ cchunks' = chunks
    /\ UNCHANGED <<syncVars, queryVars, llmVars, concVars, ctext, cparams>>

TurnNext == ChunkTextBegin \/ ChunkTextTurn \/ SmartChunksBegin \/ SmartChunksTurn

TurnSpec == ChunkInit /\ [][TurnNext]_vars

InLoop == cpc \in {"while_chunk_text", "while_smart_chunks"}

\* C25: the chunkers always advance: from one turn of the while loop to the
\* next the window start grows by at least 1, for every text and every
\* max_chars >= 1 and overlap >= 0, overlap >= max_chars included.
C25_WindowAdvances ==
    [][(InLoop /\ InLoop') => cstart' >= cstart + 1]_vars

(***************************************************************************)
(* Sync engine: deletes that fail, records of failed pages, the drop.      *)
(***************************************************************************)
\* the rows of promo k the store held when the run began and the run does not
\* derive again, and the rows the run derives that the store did not hold
OldChunks(k) == ChunksOf(store0, data[k].id) \ Fresh(k)
NewChunks(k) == Fresh(k) \ store0

C27_FailedPageSkipped ==
    \A k \in 1..Len(data) : data[k].detail

(***************************************************************************)
(* Two runs of main() of 3.bca_scraper_senteces.py at the same time, as    *)
(* two processes against one Chroma server.  main() takes no lock; every   *)
(* call to the server is one step.  A Collection object names the          *)
(* collection by its id, so after another process has dropped the          *)
(* collection the calls through it raise.                                  *)
(***************************************************************************)
Runs == 1..2

\* what the crawl of run r can return: the scrapes stamped with its own time
ConcScrapes(r) == {d \in Scrapes : \A n \in 1..Len(d) : d[n].scrape_date = r}

IdleRun ==
    [pc |-> "idle", data |-> <<>>, idx |-> 0, existing_docs |-> {}, cause |-> NoValue,
     handle |-> 0]

ConcInit ==
    /\ SyncIdle
    /\ QueryIdle
    /\ indexed_by = LOCAL_MODEL
    /\ LlmIdle
    /\ ChunkIdle
    /\ runs = [r \in Runs |-> IdleRun]
    /\ coll = [gen |-> 0, exists |-> FALSE]

\* the Collection object of run r no longer names a collection of the server
Stale(r) == ~coll.exists \/ runs[r].handle # coll.gen

AbortRun(r, why) == runs' = [runs EXCEPT ![r].pc = "aborted", ![r].cause = why]

\* lines 290-294: the crawl of run r
CCrawl(r) ==
    /\ runs[r].pc = "idle"
    /\ \E d \in ConcScrapes(r) :
          runs' = [runs EXCEPT ![r].pc = "crawled", ![r].data = d]
    /\ UNCHANGED <<syncVars, queryVars, llmVars, chunkVars, coll>>

\* lines 296-301: connect, then the drop, whose failure is swallowed; dropping
\* a collection that is not there raises and is swallowed too
CDropCollection(r) ==
    /\ runs[r].pc = "crawled"
    /\ \E connected \in BOOLEAN, ok \in BOOLEAN :
          IF ~connected
          THEN AbortRun(r, "connect") /\ UNCHANGED <<store, coll>>
          ELSE /\ runs' = [runs EXCEPT ![r].pc = "dropped"]
               /\ IF DROP_OLD_COLLECTION /\ ok /\ coll.exists
                  THEN /\ store' = delete_collection(store)
                       /\ coll' = [coll EXCEPT !.exists = FALSE]
                  ELSE UNCHANGED <<store, coll>>
    /\ UNCHANGED <<pc, data, idx, existing_docs, cause, store0, sameInput, prevOk,
                   queryVars, llmVars, chunkVars>>

\* line 302: get_or_create_collection makes a new collection when there is none
CGetOrCreateCollection(r) ==
    /\ runs[r].pc = "dropped"
    /\ \E ok \in BOOLEAN :
          IF ~ok
          THEN AbortRun(r, "get_or_create_collection") /\ coll' = coll
          ELSE /\ coll' = IF coll.exists THEN coll
                          ELSE [gen |-> coll.gen + 1, exists |-> TRUE]
               /\ runs' = [runs EXCEPT ![r].pc = "collection", ![r].handle = coll'.gen]
    /\ UNCHANGED <<syncVars, queryVars, llmVars, chunkVars>>

\* lines 304-327: load the model, take the snapshot, find its parents, delete
\* the chunks of the promos that are gone
CReconcile(r) ==
    /\ runs[r].pc = "collection"
    /\ \E loaded \in BOOLEAN, ok \in BOOLEAN :
          LET snapshot == store
              parents == existing_parent_ids(snapshot)
              parent_ids_to_delete == parents.value \ ScrapedIds(runs[r].data)
              ids == ids_to_delete(snapshot, parent_ids_to_delete)
          IN  IF ~loaded
              THEN AbortRun(r, "load_model") /\ store' = store
              ELSE IF Stale(r)
              THEN AbortRun(r, "get") /\ store' = store
              ELSE IF parents.raised
              THEN AbortRun(r, "existing_parent_ids") /\ store' = store
              ELSE IF ids # {} /\ ~ok
              THEN AbortRun(r, "delete_removed") /\ store' = store
              ELSE /\ store' = Delete(store, ids)
                   /\ runs' = [runs EXCEPT ![r].pc = "loop", ![r].idx = 1,
                                           ![r].existing_docs = snapshot]
    /\ UNCHANGED <<pc, data, idx, existing_docs, cause, store0, sameInput, prevOk,
                   queryVars, llmVars, chunkVars, coll>>

\* lines 330-340: the delete of the promo's rows of the snapshot, called only
\* when there are such rows
CPromoDelete(r) ==
    /\ runs[r].pc = "loop"
    /\ runs[r].idx <= Len(runs[r].data)
    /\ \E ok \in BOOLEAN :
          LET ids == ids_to_delete(runs[r].existing_docs, {runs[r].data[runs[r].idx].id})
          IN  IF ids # {} /\ (~ok \/ Stale(r))
              THEN AbortRun(r, "delete_old") /\ store' = store
              ELSE /\ store' = Delete(store, ids)
                   /\ runs' = [runs EXCEPT ![r].pc = "upsert"]
    /\ UNCHANGED <<pc, data, idx, existing_docs, cause, store0, sameInput, prevOk,
                   queryVars, llmVars, chunkVars, coll>>

\* lines 342-375: chunk, embed, upsert
CPromoUpsert(r) ==
    /\ runs[r].pc = "upsert"
    /\ \E outcome \in {"ok", "encode_raises", "upsert_raises"} :
          LET rows == chunk_records(runs[r].data[runs[r].idx])
          IN  IF outcome = "encode_raises"
              THEN AbortRun(r, "encode") /\ store' = store
              ELSE IF outcome = "upsert_raises" \/ Stale(r)
              THEN AbortRun(r, "upsert") /\ store' = store
              ELSE /\ store' = Upsert(store, rows)
                   /\ runs' = [runs EXCEPT ![r].pc = "loop", ![r].idx = @ + 1]
    /\ UNCHANGED <<pc, data, idx, existing_docs, cause, store0, sameInput, prevOk,
                   queryVars, llmVars, chunkVars, coll>>

\* lines 377-378: the loop of run r is over
CFinish(r) ==
    /\ runs[r].pc = "loop"
    /\ runs[r].idx > Len(runs[r].data)
    /\ runs' = [runs EXCEPT ![r].pc = "done"]
    /\ UNCHANGED <<syncVars, queryVars, llmVars, chunkVars, coll>>

ConcNext ==
    \E r \in Runs :
        \/ CCrawl(r)
        \/ CDropCollection(r)
        \/ CGetOrCreateCollection(r)
        \/ CReconcile(r)
        \/ CPromoDelete(r)
        \/ CPromoUpsert(r)
        \/ CFinish(r)

ConcSpec == ConcInit /\ [][ConcNext]_vars

\* the rows run r derives for the promo pid, none when it did not scrape it
Written(r, pid) ==
    UNION {chunk_records(runs[r].data[k]) :
              k \in {n \in 1..Len(runs[r].data) : runs[r].data[n].id = pid}}

\* C28: when two runs at the same time have both reached the end of main(),
\* the chunks of every promo in the store are exactly the chunks one of the
\* two runs wrote for it: the steps of the two runs on one promo do not
\* interleave.
C28_RunsDoNotInterleave ==
    (\A r \in Runs : runs[r].pc = "done") =>
        \A pid \in ParentsIn(store) \cup ScrapedIds(runs[1].data) \cup ScrapedIds(runs[2].data) :
            \E r \in Runs : ChunksOf(store, pid) = Written(r, pid)

(***************************************************************************)
(* Sync engine and Cohere indexer: what a run leaves of the store it found. *)
(***************************************************************************)
\* the rows the run derives from its whole scrape
AllFresh == UNION {Fresh(k) : k \in 1..Len(data)}

\* C29: a run of main() with DROP_OLD_COLLECTION = True that gets past the
\* drop works on an empty snapshot, so that no per-parent delete has a row to
\* delete, and when it reaches the end the store holds the rows derived from
\* the current scrape and nothing else, whatever it held before.
C29_DropThenScrapeAlone ==
    /\ pc \in {"loop", "upsert", "done"} => existing_docs = {}
    /\ pc = "done" => store = AllFresh

\* the drop succeeded on a store with rows, and the run ended with other rows
C29_Witness ==
    /\ pc = "done"
    /\ store0 # {}
    /\ store # {}
    /\ store0 \cap store = {}

Ran1 == pc \in {"crawled1", "done1", "aborted1"}

\* C30: a run of main() of 1.bca_scraper_cohere.py only upserts: every chunk
\* id the store held when the run began is still there, and every row that
\* is new or changed is a row derived from the current scrape.
C30_CohereOnlyUpserts ==
    Ran1 =>
        /\ IdsOf(store0) \subseteq IdsOf(store)
        /\ (store \ store0) \subseteq Range(records_of(data))

\* the run ended, wrote a row, and left a row whose id the scrape does not derive
C30_Witness ==
    /\ pc = "done1"
    /\ store \ store0 # {}
    /\ \E r \in store0 \cap store : r.id \notin IdsOf(Range(records_of(data)))

====
